---- MODULE Spec2Model ----
(***************************************************************************)
(* Aurora Borealis Generator (src/aurora_generator.py).                    *)
(*                                                                         *)
(* Two operators over one host scene:                                      *)
(*   CURVE_OT_DrawPath  - modal path capture (invoke / modal / finish /    *)
(*                        cancel / update_curve)                           *)
(*   AURORA_OT_Create   - the effect compiler (poll / execute)             *)
(*                                                                         *)
(* Datablocks are keyed by their host name <<base, n>>, n = 0 for "base"   *)
(* and n > 0 for "base.00n": the host keeps names unique per collection    *)
(* and hands out the lowest free suffix.  Decimal constants of the source  *)
(* are kept in tenths (0.2 -> 2, 10.0 -> 100) unless noted.                *)
(***************************************************************************)
EXTENDS Integers, Sequences, FiniteSets, TLC

VARIABLES
    objects,        \* bpy.data.objects : name -> object record
    collection,     \* context.collection.objects : names linked in the scene
    curves,         \* bpy.data.curves  : name -> curve data
    meshes,         \* bpy.data.meshes  : name -> mesh data
    textures,       \* bpy.data.textures: name -> texture
    materials,      \* bpy.data.materials: name -> material (node tree, animation)
    selected,       \* names of selected objects
    active,         \* context.view_layer.objects.active (NoName when none)
    space_type,     \* context.space_data.type
    cursor,         \* window cursor
    draw_handlers,  \* SpaceView3D draw handlers installed
    modal_handlers, \* window manager modal handlers registered
    redraw_tagged,  \* context.area.tag_redraw() was called
    state,          \* capture session: INACTIVE / CAPTURING / FINISHED / CANCELLED
    points,         \* self.points
    curve_ob,       \* self.curve_ob (NoName for None)
    handle,         \* self._handle (0 for unset)
    report,         \* last self.report(level, message)
    result,         \* last operator return value
    lastCall,       \* history: the operator entry point called last, and its event
    clicked,        \* history: ground hits of this session's clicks, in order
    before,         \* history: datablock names when the session began
    removals,       \* history: draw_handler_remove calls of this session
    nSessions,      \* history: capture sessions started
    lastCompile,    \* history: what the last execute tore down / reused
    streak,         \* history: consecutive executes on one curve
    prevArtifact,   \* history: artifact summary left by the execute before the last
    nCompiles,      \* history: executes run
    nExternal       \* history: deletions made outside the add-on

hostVars    == <<objects, collection, curves, meshes, textures, materials,
                 selected, active>>
uiVars      == <<space_type, cursor, draw_handlers, modal_handlers, redraw_tagged>>
sessionVars == <<state, points, curve_ob, handle>>
captureHist == <<lastCall, clicked, before, removals, nSessions>>
compileHist == <<lastCompile, streak, prevArtifact, nCompiles, nExternal>>
vars == <<hostVars, uiVars, sessionVars, report, result, captureHist, compileHist>>

-----------------------------------------------------------------------------
(* Bounds of the model.                                                    *)

MaxPoints   == 3    \* clicks accepted per capture session
MaxSessions == 1    \* capture sessions
MaxCompiles == 3    \* executes of AURORA_OT_Create
MaxExternal == 1    \* deletions made outside the add-on

-----------------------------------------------------------------------------
(* Names and small helpers.                                                *)

NoName == <<"", 0>>

Put(f, k, v) == [x \in (DOMAIN f) \cup {k} |-> IF x = k THEN v ELSE f[x]]

Drop(f, k) == [x \in (DOMAIN f) \ {k} |-> f[x]]

\* The host's unique naming: "base" when free, else the lowest free "base.00n".
UniqueName(base, used) ==
    <<base, CHOOSE n \in 0..Cardinality(used) :
                /\ <<base, n>> \notin used
                /\ \A m \in 0..(n - 1) : <<base, m>> \in used>>

\* collection.get(name): the datablock of that name, else None.
Get(coll, name) == IF name \in DOMAIN coll THEN name ELSE NoName

EmptyTags == [k \in {} |-> NoName]

-----------------------------------------------------------------------------
(* Path capture: geometry of a click.                                      *)

Vec(x, y, z) == <<x, y, z>>

\* Python values bound to `location`: None or a mathutils.Vector.
PyNone == [kind |-> "None", v |-> <<>>]

PyVector(v) == [kind |-> "Vector", v |-> v]

\* Fault variant of Truthy: a vector tested by its components.
TruthyByValue(val) == val.kind # "None" /\ \E i \in DOMAIN val.v : val.v[i] # 0

\* `if location:` - an object whose type defines no __bool__ is tested by
\* its length; None is false.
Truthy(val) == val.kind # "None" /\ Len(val.v) # 0

\* Exact quotient; the rays below are chosen so that it is an integer.
Quot(a, b) == CHOOSE q \in -100..100 : q * b = a

\* (origin, vec) pairs region_2d_to_origin_3d / region_2d_to_vector_3d can
\* return for a click: top-down hits at (0,0,0) and (10,0,0), an oblique
\* hit at (5,0,0), a ray parallel to the ground, a ray pointing away from
\* it, and a ray starting on it.
Rays ==
    { [origin |-> Vec(0, 0, 5),  vec |-> Vec(0, 0, -1)],
      [origin |-> Vec(10, 0, 5), vec |-> Vec(0, 0, -1)],
      [origin |-> Vec(0, 0, 10), vec |-> Vec(1, 0, -2)],
      [origin |-> Vec(0, 0, 5),  vec |-> Vec(1, 0, 0)],
      [origin |-> Vec(0, 0, 5),  vec |-> Vec(0, 0, 1)],
      [origin |-> Vec(3, 0, 0),  vec |-> Vec(0, 0, -1)] }

NoRay == [origin |-> Vec(0, 0, 0), vec |-> Vec(0, 0, 0)]

Events ==
    { [type |-> t, value |-> v, ray |-> NoRay] :
          t \in {"RIGHTMOUSE", "RET", "ESC", "MOUSEMOVE", "MIDDLEMOUSE"},
          v \in {"PRESS"} }
    \cup { [type |-> "LEFTMOUSE", value |-> "RELEASE", ray |-> NoRay] }
    \cup { [type |-> "LEFTMOUSE", value |-> "PRESS", ray |-> r] : r \in Rays }

NoEvent == [type |-> "NONE", value |-> "NOTHING", ray |-> NoRay]

NoCall == [op |-> "none", event |-> NoEvent]

\* Fault variant of Intersect: the sign of t is not tested.
IntersectBehind(origin, vec) ==
    IF vec[3] # 0
    THEN LET t == Quot(-origin[3], vec[3])
         IN  PyVector(Vec(origin[1] + t * vec[1],
                          origin[2] + t * vec[2],
                          origin[3] + t * vec[3]))
    ELSE PyNone

\* Intersect with the Z=0 plane.
Intersect(origin, vec) ==
    IF vec[3] # 0
    THEN LET t == Quot(-origin[3], vec[3])
         IN  IF t > 0
             THEN PyVector(Vec(origin[1] + t * vec[1],
                               origin[2] + t * vec[2],
                               origin[3] + t * vec[3]))
             ELSE PyNone
    ELSE PyNone

-----------------------------------------------------------------------------
(* Path capture: the backing curve.                                        *)

NewBezierPoint ==
    [co |-> Vec(0, 0, 0), handle_left_type |-> "FREE", handle_right_type |-> "FREE"]

\* splines.new('BEZIER'): a spline that already holds one point.
NewSpline == [type |-> "BEZIER", bezier_points |-> <<NewBezierPoint>>]

\* Fault variant of AddPoints: the spline is not extended.
AddPointsNone(bps, count) == bps

\* bezier_points.add(count)
AddPoints(bps, count) ==
    bps \o [i \in 1..count |-> NewBezierPoint]

CurveObject(data) ==
    [type |-> "CURVE", data |-> data, modifiers |-> <<>>,
     tags |-> EmptyTags, owner |-> NoName]

\* The spline's points after update_curve's resize and per-point loop.
SetPointsKeepCount(bps, pts) ==
    [i \in 1..Len(bps) |->
        IF i <= Len(pts)
        THEN [co |-> pts[i], handle_left_type |-> "AUTO", handle_right_type |-> "AUTO"]
        ELSE bps[i]]

SetPoints(bps, pts) ==
    LET grown == IF Len(bps) < Len(pts)
                 THEN AddPoints(bps, Len(pts) - Len(bps))
                 ELSE bps
    IN  SetPointsKeepCount(grown, pts)

\* update_curve: the world after it, as a record of the values it writes.
update_curve(pts, ob, objs, crvs, coll) ==
    LET fresh    == (ob = NoName)
        dataName == IF fresh THEN UniqueName("AuroraPath", DOMAIN crvs)
                    ELSE objs[ob].data
        obName   == IF fresh THEN UniqueName("AuroraCurve", DOMAIN objs) ELSE ob
        crvs1    == IF fresh
                    THEN Put(crvs, dataName,
                             [dimensions |-> "3D", splines |-> <<NewSpline>>])
                    ELSE crvs
        objs1    == IF fresh THEN Put(objs, obName, CurveObject(dataName)) ELSE objs
        coll1    == IF fresh THEN coll \cup {obName} ELSE coll
        spline   == crvs1[dataName].splines[1]
        spline1  == [spline EXCEPT !.bezier_points = SetPoints(@, pts)]
    IN  [curve_ob   |-> obName,
         objects    |-> objs1,
         collection |-> coll1,
         curves     |-> [crvs1 EXCEPT ![dataName].splines[1] = spline1]]

-----------------------------------------------------------------------------
(* CURVE_OT_DrawPath.                                                      *)

Snapshot ==
    [objects |-> DOMAIN objects, curves |-> DOMAIN curves,
     meshes |-> DOMAIN meshes, textures |-> DOMAIN textures,
     materials |-> DOMAIN materials, collection |-> collection]

\* Fault variant of InvokeGuard: the space type is not tested.
InvokeGuardAny == TRUE

\* context.space_data.type == 'VIEW_3D'
InvokeGuard == space_type = "VIEW_3D"

invoke ==
    /\ state # "CAPTURING"
    /\ nSessions < MaxSessions
    /\ IF InvokeGuard
       THEN /\ points' = <<>>
            /\ curve_ob' = NoName
            /\ handle' = nSessions + 1
            /\ draw_handlers' = draw_handlers \cup {nSessions + 1}
            /\ modal_handlers' = modal_handlers + 1
            /\ cursor' = "CROSSHAIR"
            /\ report' = [level |-> "INFO",
                          msg |-> "Click to add points. Enter/Right-click to finish. Esc to cancel."]
            /\ result' = "RUNNING_MODAL"
            /\ state' = "CAPTURING"
            /\ clicked' = <<>>
            /\ before' = Snapshot
            /\ removals' = 0
            /\ nSessions' = nSessions + 1
       ELSE /\ report' = [level |-> "WARNING", msg |-> "Active space must be a 3D View."]
            /\ result' = "CANCELLED"
            /\ UNCHANGED <<points, curve_ob, handle, draw_handlers, modal_handlers,
                           cursor, state, clicked, before, removals, nSessions>>
    /\ lastCall' = [op |-> "invoke", event |-> NoEvent]
    /\ UNCHANGED <<hostVars, space_type, redraw_tagged, compileHist>>

\* Fault variant of finish: the curve is selected without testing that the
\* session made one.
finishUnguarded ==
    /\ draw_handlers' = draw_handlers \ {handle}
    /\ removals' = removals + 1
    /\ selected' = {curve_ob}
    /\ active' = curve_ob
    /\ cursor' = "DEFAULT"
    /\ report' = [level |-> "INFO", msg |-> "Path created."]
    /\ UNCHANGED <<objects, collection, curves, points, curve_ob, clicked>>

\* Fault variant of finish: the other objects are not deselected first.
finishWithoutDeselect ==
    /\ draw_handlers' = draw_handlers \ {handle}
    /\ removals' = removals + 1
    /\ IF curve_ob # NoName
       THEN /\ selected' = selected \cup {curve_ob}
            /\ active' = curve_ob
       ELSE UNCHANGED <<selected, active>>
    /\ cursor' = "DEFAULT"
    /\ report' = [level |-> "INFO", msg |-> "Path created."]
    /\ UNCHANGED <<objects, collection, curves, points, curve_ob, clicked>>

finish ==
    /\ draw_handlers' = draw_handlers \ {handle}
    /\ removals' = removals + 1
    /\ IF curve_ob # NoName
       THEN /\ selected' = {curve_ob}
            /\ active' = curve_ob
       ELSE UNCHANGED <<selected, active>>
    /\ cursor' = "DEFAULT"
    /\ report' = [level |-> "INFO", msg |-> "Path created."]
    /\ UNCHANGED <<objects, collection, curves, points, curve_ob, clicked>>

\* Fault variant of cancel: the draw handler is left installed.
cancelKeepingOverlay ==
    /\ UNCHANGED <<draw_handlers, removals>>
    /\ IF curve_ob # NoName
       THEN /\ objects' = Drop(objects, curve_ob)
            /\ curves' = curves
            /\ collection' = collection \ {curve_ob}
            /\ selected' = selected \ {curve_ob}
            /\ active' = IF active = curve_ob THEN NoName ELSE active
       ELSE UNCHANGED <<objects, curves, collection, selected, active>>
    /\ cursor' = "DEFAULT"
    /\ report' = [level |-> "INFO", msg |-> "Path drawing cancelled."]
    /\ UNCHANGED <<points, curve_ob, clicked>>

cancel ==
    /\ draw_handlers' = draw_handlers \ {handle}
    /\ removals' = removals + 1
    /\ IF curve_ob # NoName
       THEN /\ objects' = Drop(objects, curve_ob)
            /\ curves' = curves
            /\ collection' = collection \ {curve_ob}
            /\ selected' = selected \ {curve_ob}
            /\ active' = IF active = curve_ob THEN NoName ELSE active
       ELSE UNCHANGED <<objects, curves, collection, selected, active>>
    /\ cursor' = "DEFAULT"
    /\ report' = [level |-> "INFO", msg |-> "Path drawing cancelled."]
    /\ UNCHANGED <<points, curve_ob, clicked>>

\* History: the ground point a click designates, when its ray meets the
\* plane z = 0 strictly in front of its origin.
HitsGround(ray) ==
    /\ ray.vec[3] # 0
    /\ (ray.vec[3] > 0) = (ray.origin[3] < 0)
    /\ ray.origin[3] # 0

GroundPoint(ray) ==
    LET t == Quot(-ray.origin[3], ray.vec[3])
    IN  Vec(ray.origin[1] + t * ray.vec[1], ray.origin[2] + t * ray.vec[2], 0)

press(event) ==
    LET location == Intersect(event.ray.origin, event.ray.vec)
    IN  /\ IF Truthy(location)
           THEN LET pts == Append(points, location.v)
                    w   == update_curve(pts, curve_ob, objects, curves, collection)
                IN  /\ points' = pts
                    /\ curve_ob' = w.curve_ob
                    /\ objects' = w.objects
                    /\ curves' = w.curves
                    /\ collection' = w.collection
           ELSE UNCHANGED <<points, curve_ob, objects, curves, collection>>
        /\ clicked' = IF HitsGround(event.ray)
                      THEN Append(clicked, GroundPoint(event.ray))
                      ELSE clicked
        /\ UNCHANGED <<selected, active, cursor, draw_handlers, report, removals>>

\* Fault variant of IsPress: the value of the event is not tested.
IsPressAnyValue(event) == event.type = "LEFTMOUSE"

\* event.type == 'LEFTMOUSE' and event.value == 'PRESS'
IsPress(event) == event.type = "LEFTMOUSE" /\ event.value = "PRESS"

modal(event) ==
    /\ state = "CAPTURING"
    /\ redraw_tagged' = TRUE
    /\ lastCall' = [op |-> "modal", event |-> event]
    /\ IF event.type \in {"RIGHTMOUSE", "RET"}
       THEN /\ finish
            /\ result' = "FINISHED"
            /\ state' = "FINISHED"
            /\ modal_handlers' = modal_handlers - 1
       ELSE IF event.type = "ESC"
       THEN /\ cancel
            /\ result' = "CANCELLED"
            /\ state' = "CANCELLED"
            /\ modal_handlers' = modal_handlers - 1
       ELSE IF IsPress(event)
       THEN /\ Len(points) < MaxPoints
            /\ press(event)
            /\ result' = "RUNNING_MODAL"
            /\ UNCHANGED <<state, modal_handlers>>
       ELSE /\ result' = "PASS_THROUGH"
            /\ UNCHANGED <<objects, collection, curves, selected, active, cursor,
                           draw_handlers, modal_handlers, report, state, points,
                           curve_ob, clicked, removals>>
    /\ UNCHANGED <<meshes, textures, materials, space_type, handle, before,
                   nSessions, compileHist>>

Modal == \E event \in Events : modal(event)

\* The user moves to another editor, or back to the 3D view, between sessions.
SwitchSpace ==
    /\ state # "CAPTURING"
    /\ space_type' \in {"VIEW_3D", "NODE_EDITOR"} \ {space_type}
    /\ lastCall' = NoCall
    /\ UNCHANGED <<hostVars, cursor, draw_handlers, modal_handlers, redraw_tagged,
                   sessionVars, report, result, clicked, before, removals,
                   nSessions, compileHist>>

-----------------------------------------------------------------------------
(* Effect compiler: the Parameter Set (AuroraGeneratorProperties).         *)
(* Decimals in tenths; colours are RGBA in tenths.                         *)

DefaultProps ==
    [aurora_height |-> 50, subdivisions |-> 128,
     color1 |-> <<1, 10, 7, 10>>, color2 |-> <<3, 2, 8, 10>>,
     emission_strength |-> 250, noise_scale |-> 15, noise_distortion |-> 5,
     animate |-> TRUE]

ParamSets ==
    { DefaultProps,
      [DefaultProps EXCEPT !.animate = FALSE],
      [aurora_height |-> 10, subdivisions |-> 2,
       color1 |-> <<10, 0, 0, 10>>, color2 |-> <<0, 0, 10, 10>>,
       emission_strength |-> 0, noise_scale |-> 1, noise_distortion |-> 0,
       animate |-> TRUE] }

-----------------------------------------------------------------------------
(* The host scene as one value, and its datablock primitives.              *)

World ==
    [objects |-> objects, collection |-> collection, meshes |-> meshes,
     textures |-> textures, materials |-> materials, selected |-> selected,
     active |-> active]

\* ID.users of a mesh: the objects whose data it is.
MeshUsers(w, m) ==
    Cardinality({o \in DOMAIN w.objects : w.objects[o].data = m
                                          /\ w.objects[o].type = "MESH"})

\* ID.users of a texture: the modifiers that hold it.
TextureUsers(w, t) ==
    Cardinality({<<o, i>> \in (DOMAIN w.objects) \X (1..2) :
                    /\ i \in DOMAIN w.objects[o].modifiers
                    /\ w.objects[o].modifiers[i].texture = t})

\* bpy.data.objects.remove(ob, do_unlink=True): the object leaves bpy.data,
\* its collections, the selection and the active slot; its data stays behind.
RemoveObject(w, ob) ==
    [w EXCEPT !.objects = Drop(@, ob),
              !.collection = @ \ {ob},
              !.selected = @ \ {ob},
              !.active = IF @ = ob THEN NoName ELSE @]

\* bpy.data.meshes.remove(mesh)
RemoveMesh(w, m) == [w EXCEPT !.meshes = Drop(@, m)]

\* bpy.data.textures.remove(tex): modifiers that held it hold None.
RemoveTexture(w, t) ==
    [w EXCEPT !.textures = Drop(@, t),
              !.objects = [o \in DOMAIN @ |->
                  [@[o] EXCEPT !.modifiers = [i \in DOMAIN @ |->
                      IF @[i].texture = t
                      THEN [@[i] EXCEPT !.texture = NoName]
                      ELSE @[i]]]]]

\* bpy.data.materials.remove(mat): material slots that held it hold None.
RemoveMaterial(w, m) ==
    [w EXCEPT !.materials = Drop(@, m),
              !.meshes = [x \in DOMAIN @ |->
                  [@[x] EXCEPT !.materials = [i \in DOMAIN @ |->
                      IF @[i] = m THEN NoName ELSE @[i]]]]]

-----------------------------------------------------------------------------
(* execute, "Pre-Creation Cleanup".                                        *)

\* The object the surface tag resolves to (None when untagged or dangling).
OldAurora(w, curve_object) ==
    IF "aurora_object_name" \in DOMAIN w.objects[curve_object].tags
    THEN Get(w.objects, w.objects[curve_object].tags["aurora_object_name"])
    ELSE NoName

\* Fault variant of CleanupObject: the old surface is left in place.
CleanupObjectSkipped(w, curve_object) == w

CleanupObject(w, curve_object) ==
    LET old_aurora == OldAurora(w, curve_object)
    IN  IF old_aurora # NoName
        THEN LET old_mesh == w.objects[old_aurora].data
                 w1 == RemoveObject(w, old_aurora)
             IN  IF old_mesh \in DOMAIN w1.meshes /\ MeshUsers(w1, old_mesh) = 0
                 THEN RemoveMesh(w1, old_mesh)
                 ELSE w1
        ELSE w

\* The texture the texture tag resolves to (None when untagged or dangling).
OldTexture(w, curve_object) ==
    IF "aurora_texture_name" \in DOMAIN w.objects[curve_object].tags
    THEN Get(w.textures, w.objects[curve_object].tags["aurora_texture_name"])
    ELSE NoName

\* Fault variant of CleanupTexture: the old texture is left in place.
CleanupTextureSkipped(w, curve_object) == w

CleanupTexture(w, curve_object) ==
    LET old_tex == OldTexture(w, curve_object)
    IN  IF old_tex # NoName /\ TextureUsers(w, old_tex) = 0
        THEN RemoveTexture(w, old_tex)
        ELSE w

-----------------------------------------------------------------------------
(* execute, "1. Create the base mesh" and "2. Add Modifiers".              *)

Modifier(name, type, object, texture, strength, direction) ==
    [name |-> name, type |-> type, object |-> object, texture |-> texture,
     strength |-> strength, direction |-> direction]

\* primitive_plane_add .. transform_apply: a 2 x 2 plane named "Plane",
\* the only selected object and the active one, renamed "Aurora", scaled by
\* (20, 1, 1) and (1, height / 2, 1), cut, stood up by 1.5708 rad about X
\* with the rotation applied to the mesh.
CreateBaseMesh(w, props, curve_object) ==
    LET meshName  == UniqueName("Plane", DOMAIN w.meshes)
        planeName == UniqueName("Plane", DOMAIN w.objects)
        name      == UniqueName("Aurora", (DOMAIN w.objects) \cup {planeName})
        mesh == [size_x |-> 20 * 20,
                 size_y |-> (20 * props.aurora_height) \div 20,
                 number_cuts |-> props.subdivisions,
                 smoothness |-> 0,
                 applied_rotation_x |-> 15708,
                 materials |-> <<>>,
                 owner |-> curve_object]
        ob ==   [type |-> "MESH", data |-> meshName, modifiers |-> <<>>,
                 tags |-> EmptyTags, owner |-> curve_object]
    IN  [w EXCEPT !.meshes = Put(@, meshName, mesh),
                  !.objects = Put(@, name, ob),
                  !.collection = @ \cup {name},
                  !.selected = {name},
                  !.active = name]

AddModifiers(w, aurora_object, curve_object) ==
    LET disp_texture == UniqueName("AuroraDisplaceTexture", DOMAIN w.textures)
        curve_mod == Modifier("FollowCurve", "CURVE", curve_object, NoName, 0, "")
        disp_mod  == Modifier("Displacement", "DISPLACE", NoName, disp_texture, 7, "Z")
    IN  [w EXCEPT !.textures = Put(@, disp_texture,
                                   [type |-> "CLOUDS", noise_scale |-> 5,
                                    owner |-> curve_object]),
                  !.objects[aurora_object].modifiers = <<curve_mod, disp_mod>>]

\* The texture AddModifiers gave the displacement modifier.
DispTexture(w, aurora_object) == w.objects[aurora_object].modifiers[2].texture

-----------------------------------------------------------------------------
(* execute, "3. Create or Update the Aurora Material": the node tree.      *)

EmptyNodes == [n \in {} |-> NoName]

EmptyFCurves == [k \in {} |-> NoName]

NewMaterial(owner) ==
    [use_nodes |-> FALSE, blend_method |-> "OPAQUE",
     nodes |-> EmptyNodes, links |-> {},
     animation |-> [has_action |-> FALSE, fcurves |-> EmptyFCurves],
     owner |-> owner]

\* The name the host derives from a node type.
Label(type) ==
    CASE type = "ShaderNodeOutputMaterial"  -> "Material Output"
      [] type = "ShaderNodeMixShader"       -> "Mix Shader"
      [] type = "ShaderNodeEmission"        -> "Emission"
      [] type = "ShaderNodeBsdfTransparent" -> "Transparent BSDF"
      [] type = "ShaderNodeValToRGB"        -> "Color Ramp"
      [] type = "ShaderNodeSeparateXYZ"     -> "Separate XYZ"
      [] type = "ShaderNodeTexCoord"        -> "Texture Coordinate"
      [] type = "ShaderNodeTexNoise"        -> "Noise Texture"
      [] type = "ShaderNodeMapping"         -> "Mapping"
      [] type = "ShaderNodeMath"            -> "Math"
      [] type = "ShaderNodeBsdfPrincipled"  -> "Principled BSDF"

Black == <<0, 0, 0, 10>>

White == <<10, 10, 10, 10>>

RampElement(position, color) == [position |-> position, color |-> color]

DefaultInputs(type) ==
    CASE type = "ShaderNodeMapping" ->
             [k \in {"Location", "Rotation", "Scale"} |->
                 IF k = "Scale" THEN <<10, 10, 10>> ELSE <<0, 0, 0>>]
      [] type = "ShaderNodeTexNoise" ->
             [k \in {"Scale", "Detail", "Roughness", "Distortion"} |->
                 CASE k = "Scale" -> 50 [] k = "Detail" -> 20
                   [] k = "Roughness" -> 5 [] k = "Distortion" -> 0]
      [] type = "ShaderNodeMath" -> [k \in {"0", "1"} |-> 5]
      [] OTHER -> [k \in {} |-> 0]

\* nodes.new(type) before any property is set.
DefaultNode(type) ==
    [type |-> type,
     operation |-> IF type = "ShaderNodeMath" THEN "ADD" ELSE "",
     location |-> <<0, 0>>,
     elements |-> IF type = "ShaderNodeValToRGB"
                  THEN <<RampElement(0, Black), RampElement(10, White)>>
                  ELSE <<>>,
     inputs |-> DefaultInputs(type)]

Link(from_node, from_socket, to_node, to_socket) ==
    [from_node |-> from_node, from_socket |-> from_socket,
     to_node |-> to_node, to_socket |-> to_socket]

\* links.new: an input socket holds one link; a new one replaces it.
LinksNew(links, l) ==
    {k \in links : ~(k.to_node = l.to_node /\ k.to_socket = l.to_socket)} \cup {l}

RECURSIVE LinkAll(_, _)
LinkAll(links, ls) ==
    IF ls = <<>> THEN links ELSE LinkAll(LinksNew(links, Head(ls)), Tail(ls))

\* mat.use_nodes = True: a material without a tree gets the host's default
\* tree, a Principled BSDF wired to a Material Output.
UseNodes(mat) ==
    IF mat.use_nodes
    THEN mat
    ELSE LET bsdf == <<"Principled BSDF", 0>>
             out  == <<"Material Output", 0>>
         IN  [mat EXCEPT !.use_nodes = TRUE,
                         !.nodes = [n \in {bsdf, out} |->
                                       IF n = bsdf
                                       THEN DefaultNode("ShaderNodeBsdfPrincipled")
                                       ELSE DefaultNode("ShaderNodeOutputMaterial")],
                         !.links = {Link(bsdf, "BSDF", out, "Surface")}]

\* An F-curve belongs to a node when its path starts nodes["<name>"].
PathOfNode(path, names) == path[1] = "nodes" /\ path[2] \in names

\* Fault variant of NodesClear: stale nodes are kept.
NodesKept(mat) == mat

\* nodes.clear(): every node goes, with its links and with the F-curves
\* that animate it; the tree's animation data and action stay.
NodesClear(mat) ==
    [mat EXCEPT !.nodes = EmptyNodes,
                !.links = {},
                !.animation.fcurves =
                    [k \in {x \in DOMAIN @ : ~PathOfNode(x[1], DOMAIN mat.nodes)}
                        |-> @[k]]]

\* nodes.new for each type in turn: the tree and the names handed out.
RECURSIVE NodesNew(_, _, _)
NodesNew(nodes, types, names) ==
    IF types = <<>>
    THEN [nodes |-> nodes, names |-> names]
    ELSE LET name == UniqueName(Label(Head(types)), DOMAIN nodes)
         IN  NodesNew(Put(nodes, name, DefaultNode(Head(types))),
                      Tail(types), Append(names, name))

\* "Create all necessary nodes", in the order of the source.
NodeTypes ==
    << "ShaderNodeOutputMaterial",   \*  1 output_node
       "ShaderNodeMixShader",        \*  2 mix_shader
       "ShaderNodeEmission",         \*  3 emission
       "ShaderNodeBsdfTransparent",  \*  4 transparent
       "ShaderNodeValToRGB",         \*  5 color_ramp_main
       "ShaderNodeSeparateXYZ",      \*  6 separate_xyz
       "ShaderNodeTexCoord",         \*  7 tex_coord
       "ShaderNodeTexNoise",         \*  8 noise_tex
       "ShaderNodeMapping",          \*  9 mapping_anim
       "ShaderNodeMapping",          \* 10 mapping_stretch
       "ShaderNodeValToRGB",         \* 11 emission_falloff_ramp
       "ShaderNodeMath",             \* 12 multiply_emission
       "ShaderNodeValToRGB",         \* 13 vertical_fade_ramp
       "ShaderNodeMath" >>           \* 14 combine_fade_and_noise

\* Linear interpolation of a ramp's colour at a position between two stops.
RampColorAt(e0, e1, position) ==
    [c \in 1..4 |->
        e0.color[c] + ((e1.color[c] - e0.color[c]) * (position - e0.position))
                          \div (e1.position - e0.position)]

\* color_ramp.elements.new(position) on a two-stop ramp: the stop is
\* inserted in position order with the ramp's colour there.
ElementsNew(elements, position) ==
    <<elements[1],
      RampElement(position, RampColorAt(elements[1], elements[2], position)),
      elements[2]>>

\* "Configure node properties" and the node locations.
ConfigureNodes(nodes, v, props) ==
    [nodes EXCEPT
        ![v[1]].location  = <<600, 0>>,
        ![v[2]].location  = <<400, 0>>,
        ![v[4]].location  = <<200, -200>>,
        ![v[3]].location  = <<200, 100>>,
        ![v[12]].location = <<0, 200>>,
        ![v[11]].location = <<-200, 200>>,
        ![v[5]].location  = <<-200, 100>>,
        ![v[6]].location  = <<-400, 100>>,
        ![v[7]].location  = <<-600, 100>>,
        ![v[14]].location = <<200, -50>>,
        ![v[13]].location = <<0, 0>>,
        ![v[8]].location  = <<0, -200>>,
        ![v[10]].location = <<-200, -200>>,
        ![v[9]].location  = <<-400, -200>>,
        ![v[12]].operation = "MULTIPLY",
        ![v[14]].operation = "MAXIMUM",
        ![v[5]].elements = <<RampElement(@[1].position, props.color1),
                             RampElement(@[2].position, props.color2)>>,
        ![v[11]].elements = <<RampElement(0, White), RampElement(10, Black)>>,
        ![v[12]].inputs["1"] = props.emission_strength,
        ![v[13]].elements =
            LET e0 == <<RampElement(0, White), @[2]>>
                e1 == ElementsNew(e0, 3)
            IN  <<e1[1], RampElement(e1[2].position, Black), RampElement(10, Black)>>,
        ![v[10]].inputs["Scale"] = <<2, 100, @[3]>>,
        ![v[8]].inputs["Scale"] = props.noise_scale,
        ![v[8]].inputs["Detail"] = 50,
        ![v[8]].inputs["Roughness"] = 6,
        ![v[8]].inputs["Distortion"] = props.noise_distortion]

\* "4. Link Nodes Together", in the order of the source.
GraphLinks(v) ==
    << Link(v[7],  "Generated", v[6],  "Vector"),
       Link(v[6],  "Y",         v[5],  "Fac"),
       Link(v[5],  "Color",     v[3],  "Color"),
       Link(v[6],  "Y",         v[11], "Fac"),
       Link(v[11], "Color",     v[12], "0"),
       Link(v[12], "Value",     v[3],  "Strength"),
       Link(v[7],  "Generated", v[9],  "Vector"),
       Link(v[9],  "Vector",    v[10], "Vector"),
       Link(v[10], "Vector",    v[8],  "Vector"),
       Link(v[6],  "Y",         v[13], "Fac"),
       Link(v[13], "Color",     v[14], "0"),
       Link(v[8],  "Fac",       v[14], "1"),
       Link(v[14], "Value",     v[2],  "Fac"),
       Link(v[3],  "Emission",  v[2],  "1"),
       Link(v[4],  "BSDF",      v[2],  "2"),
       Link(v[2],  "Shader",    v[1],  "Surface") >>

-----------------------------------------------------------------------------
(* execute, "5. Add animation driver".                                     *)

\* The interpolation the host gives a new keyframe (its factory preference).
NewKeyInterpolation == "BEZIER"

\* The RNA path keyframe_insert(data_path='default_value') records for an
\* input socket: nodes["<node>"].inputs[<index>].default_value, as tokens.
SocketDataPath(node, index) == <<"nodes", node, "inputs", index, "default_value">>

\* str.endswith on the tokens of a path.
EndsWith(path, suffix) == Len(path) > 0 /\ path[Len(path)] = suffix

NewFCurve == [keyframe_points |-> [f \in {} |-> 0], modifiers |-> <<>>]

\* keyframe_insert on a 3-vector: one F-curve per component, created on
\* demand together with the animation data and its action; a key on a frame
\* that already has one replaces it.
KeyframeInsert(animation, path, value, frame) ==
    LET keys == {<<path, i>> : i \in 0..2}
        old  == animation.fcurves
    IN  [has_action |-> TRUE,
         fcurves |->
            [k \in (DOMAIN old) \cup keys |->
                LET fc == IF k \in DOMAIN old THEN old[k] ELSE NewFCurve
                IN  IF k \in keys
                    THEN [fc EXCEPT !.keyframe_points =
                             Put(@, frame, [value |-> value[k[2] + 1],
                                            interpolation |-> NewKeyInterpolation])]
                    ELSE fc]]

\* The loop over action.fcurves that makes the keys linear and adds CYCLES.
MakeCyclic(animation) ==
    IF animation.has_action
    THEN [animation EXCEPT !.fcurves =
            [k \in DOMAIN @ |->
                IF EndsWith(k[1], "['Location']")
                THEN [keyframe_points |->
                          [f \in DOMAIN @[k].keyframe_points |->
                              [@[k].keyframe_points[f] EXCEPT
                                  !.interpolation = "LINEAR"]],
                      modifiers |-> Append(@[k].modifiers, "CYCLES")]
                ELSE @[k]]]
    ELSE animation

\* Index of the Location input among a Mapping node's inputs.
LocationIndex == 1

Animate(mat, mapping_anim) ==
    LET path == SocketDataPath(mapping_anim, LocationIndex)
        a1   == KeyframeInsert(mat.animation, path,
                               mat.nodes[mapping_anim].inputs["Location"], 1)
        m1   == [mat EXCEPT !.animation = a1,
                            !.nodes[mapping_anim].inputs["Location"][2] = 50]
        a2   == KeyframeInsert(m1.animation, path,
                               m1.nodes[mapping_anim].inputs["Location"], 250)
    IN  [m1 EXCEPT !.animation = MakeCyclic(a2)]

\* Fault variant of BuildMaterial: the keyframes go on mapping_stretch.
BuildMaterialStretchKeyed(mat, props) ==
    LET m1 == [UseNodes(mat) EXCEPT !.blend_method = "BLEND"]
        m2 == NodesClear(m1)
        nn == NodesNew(m2.nodes, NodeTypes, <<>>)
        v  == nn.names
        m3 == [m2 EXCEPT !.nodes = ConfigureNodes(nn.nodes, v, props),
                         !.links = LinkAll(m2.links, GraphLinks(v))]
    IN  IF props.animate THEN Animate(m3, v[10]) ELSE m3

\* Steps 3 to 5 on the material.
BuildMaterial(mat, props) ==
    LET m1 == [UseNodes(mat) EXCEPT !.blend_method = "BLEND"]
        m2 == NodesClear(m1)
        nn == NodesNew(m2.nodes, NodeTypes, <<>>)
        v  == nn.names
        m3 == [m2 EXCEPT !.nodes = ConfigureNodes(nn.nodes, v, props),
                         !.links = LinkAll(m2.links, GraphLinks(v))]
    IN  IF props.animate THEN Animate(m3, v[9]) ELSE m3

-----------------------------------------------------------------------------
(* AURORA_OT_Create.                                                       *)

\* Fault variant of poll: the type of the active object is not tested.
pollAnyType == active \in DOMAIN objects

poll == active \in DOMAIN objects /\ objects[active].type = "CURVE"

\* The material the material tag resolves to (None when untagged or dangling).
OldMaterial(w, curve_object) ==
    IF "aurora_material_name" \in DOMAIN w.objects[curve_object].tags
    THEN Get(w.materials, w.objects[curve_object].tags["aurora_material_name"])
    ELSE NoName

\* Fault variant of CreateOrUpdateMaterial: a material is created only for
\* a curve without a material tag, so a dangling tag yields no material.
CreateOrUpdateMaterialUntaggedOnly(w, props, curve_object) ==
    LET old    == OldMaterial(w, curve_object)
        tagged == "aurora_material_name" \in DOMAIN w.objects[curve_object].tags
        name   == IF old # NoName THEN old
                  ELSE UniqueName("Aurora_Material", DOMAIN w.materials)
        mat    == IF old # NoName THEN w.materials[old] ELSE NewMaterial(curve_object)
        w1     == IF tagged THEN w
                  ELSE [w EXCEPT !.objects[curve_object].tags =
                                     Put(@, "aurora_material_name", name)]
    IN  IF tagged /\ old = NoName
        THEN w
        ELSE [w1 EXCEPT !.materials = Put(@, name, BuildMaterial(mat, props))]

\* "3. Create or Update the Aurora Material" up to "5. Add animation driver".
CreateOrUpdateMaterial(w, props, curve_object) ==
    LET old  == OldMaterial(w, curve_object)
        name == IF old # NoName THEN old
                ELSE UniqueName("Aurora_Material", DOMAIN w.materials)
        mat  == IF old # NoName THEN w.materials[old] ELSE NewMaterial(curve_object)
        w1   == IF old # NoName THEN w
                ELSE [w EXCEPT !.objects[curve_object].tags =
                                   Put(@, "aurora_material_name", name)]
    IN  [w1 EXCEPT !.materials = Put(@, name, BuildMaterial(mat, props))]

\* The material CreateOrUpdateMaterial built: the tagged one.
MaterialOf(w, curve_object) == w.objects[curve_object].tags["aurora_material_name"]

\* Fault variant of Finalize: the curve's custom properties are replaced by
\* the two tags instead of being updated.
FinalizeRetagged(w, aurora_object, curve_object) ==
    LET mesh == w.objects[aurora_object].data
    IN  [w EXCEPT
            !.meshes[mesh].materials = Append(@, MaterialOf(w, curve_object)),
            !.objects[curve_object].tags =
                Put(Put(EmptyTags, "aurora_object_name", aurora_object),
                    "aurora_texture_name", DispTexture(w, aurora_object)),
            !.selected = (@ \ {curve_object}) \cup {aurora_object},
            !.active = aurora_object]

\* Fault variant of Finalize: the tags record the names asked for, not the
\* names the host assigned.
FinalizeRequestedNames(w, aurora_object, curve_object) ==
    LET mesh == w.objects[aurora_object].data
    IN  [w EXCEPT
            !.meshes[mesh].materials = Append(@, MaterialOf(w, curve_object)),
            !.objects[curve_object].tags =
                Put(Put(@, "aurora_object_name", <<"Aurora", 0>>),
                    "aurora_texture_name", <<"AuroraDisplaceTexture", 0>>),
            !.selected = (@ \ {curve_object}) \cup {aurora_object},
            !.active = aurora_object]

\* "6. Assign material and finalize".
Finalize(w, aurora_object, curve_object) ==
    LET mesh == w.objects[aurora_object].data
    IN  [w EXCEPT
            !.meshes[mesh].materials = Append(@, MaterialOf(w, curve_object)),
            !.objects[curve_object].tags =
                Put(Put(@, "aurora_object_name", aurora_object),
                    "aurora_texture_name", DispTexture(w, aurora_object)),
            !.selected = (@ \ {curve_object}) \cup {aurora_object},
            !.active = aurora_object]

\* execute, as the world it leaves.
execute(w, props) ==
    LET curve_object == w.active
        w1 == CleanupObject(w, curve_object)
        w2 == CleanupTexture(w1, curve_object)
        w3 == CreateBaseMesh(w2, props, curve_object)
        aurora_object == w3.active
        w4 == AddModifiers(w3, aurora_object, curve_object)
        w5 == CreateOrUpdateMaterial(w4, props, curve_object)
    IN  Finalize(w5, aurora_object, curve_object)

\* History: whose datablocks the teardown removed and the material step reused.
OwnerOf(coll, name) == IF name \in DOMAIN coll THEN coll[name].owner ELSE NoName

TornDown(w, curve_object) ==
    LET old_aurora == OldAurora(w, curve_object)
        w1      == CleanupObject(w, curve_object)
        old_tex == OldTexture(w1, curve_object)
        w2      == CleanupTexture(w1, curve_object)
        old_mat == OldMaterial(w2, curve_object)
    IN  [removedObject  |-> IF old_aurora \in DOMAIN w1.objects THEN NoName
                            ELSE OwnerOf(w.objects, old_aurora),
         removedTexture |-> IF old_tex \in DOMAIN w2.textures THEN NoName
                            ELSE OwnerOf(w1.textures, old_tex),
         reusedMaterial |-> OwnerOf(w2.materials, old_mat)]

\* History: the tags of the curve that name no datablock when execute starts.
TagCollections(w) ==
    [k \in {"aurora_object_name", "aurora_texture_name", "aurora_material_name"} |->
        CASE k = "aurora_object_name"   -> DOMAIN w.objects
          [] k = "aurora_texture_name"  -> DOMAIN w.textures
          [] k = "aurora_material_name" -> DOMAIN w.materials]

StaleTags(w, curve_object) ==
    {k \in DOMAIN TagCollections(w) :
        /\ k \in DOMAIN w.objects[curve_object].tags
        /\ w.objects[curve_object].tags[k] \notin TagCollections(w)[k]}

\* The artifact a curve owns: its tags, the surfaces that follow it, and the
\* meshes, textures and materials those surfaces hold.
Surfaces(c) ==
    {o \in DOMAIN objects :
        \E i \in DOMAIN objects[o].modifiers : objects[o].modifiers[i].object = c}

SurfaceMeshes(c) == {objects[o].data : o \in Surfaces(c)} \cap DOMAIN meshes

SurfaceTextures(c) ==
    {objects[o].modifiers[i].texture : <<o, i>> \in
        {<<o, i>> \in Surfaces(c) \X (1..2) : i \in DOMAIN objects[o].modifiers}}
    \cap DOMAIN textures

SurfaceMaterials(c) ==
    {meshes[m].materials[i] : <<m, i>> \in
        {<<m, i>> \in SurfaceMeshes(c) \X (1..2) : i \in DOMAIN meshes[m].materials}}
    \cap DOMAIN materials

Artifact(c) ==
    [tags      |-> objects[c].tags,
     surfaces  |-> [o \in Surfaces(c) |-> objects[o]],
     meshes    |-> [m \in SurfaceMeshes(c) |-> meshes[m]],
     textures  |-> [t \in SurfaceTextures(c) |-> textures[t]],
     materials |-> [m \in SurfaceMaterials(c) |-> materials[m]]]

\* History: how many datablocks of each kind bpy.data holds.
Counts ==
    [objects |-> Cardinality(DOMAIN objects), meshes |-> Cardinality(DOMAIN meshes),
     textures |-> Cardinality(DOMAIN textures),
     materials |-> Cardinality(DOMAIN materials)]

NoArtifact == [valid |-> FALSE, props |-> DefaultProps, art |-> <<>>, counts |-> <<>>]

NoCompile ==
    [curve |-> NoName, props |-> DefaultProps, ran |-> FALSE,
     removedObject |-> NoName, removedTexture |-> NoName, reusedMaterial |-> NoName,
     stale |-> {}]

Execute ==
    \E props \in ParamSets :
        /\ state # "CAPTURING"
        /\ nCompiles < MaxCompiles
        /\ IF poll
           THEN LET w == execute(World, props)
                IN  /\ nCompiles' = nCompiles + 1
                    /\ objects' = w.objects
                    /\ collection' = w.collection
                    /\ meshes' = w.meshes
                    /\ textures' = w.textures
                    /\ materials' = w.materials
                    /\ selected' = w.selected
                    /\ active' = w.active
                    /\ report' = [level |-> "INFO",
                                  msg |-> "Aurora created/updated successfully!"]
                    /\ result' = "FINISHED"
                    /\ lastCompile' = [curve |-> active, props |-> props, ran |-> TRUE]
                                         @@ TornDown(World, active)
                                         @@ [stale |-> StaleTags(World, active)]
                    /\ streak' = [curve |-> active,
                                  n |-> IF streak.curve = active THEN streak.n + 1 ELSE 1]
                    /\ prevArtifact' =
                          IF streak.curve = active
                          THEN [valid |-> TRUE, props |-> lastCompile.props,
                                art |-> Artifact(active), counts |-> Counts]
                          ELSE NoArtifact
           ELSE /\ result' = "POLL_FAILED"
                /\ UNCHANGED <<objects, collection, meshes, textures, materials,
                               selected, active, report, lastCompile, streak,
                               prevArtifact, nCompiles>>
        /\ UNCHANGED <<curves, uiVars, sessionVars, captureHist, nExternal>>

\* The user makes a curve the selected, active object.
Activate ==
    \E c \in DOMAIN objects :
        /\ state # "CAPTURING"
        /\ objects[c].type = "CURVE"
        /\ active # c
        /\ active' = c
        /\ selected' = {c}
        /\ UNCHANGED <<objects, collection, curves, meshes, textures, materials,
                       uiVars, sessionVars, report, result, captureHist, compileHist>>

\* The user, or another script, deletes one generated datablock: a surface
\* object (its mesh stays behind), a noise texture or a material.
ExternalDelete ==
    /\ state # "CAPTURING"
    /\ nExternal < MaxExternal
    /\ nExternal' = nExternal + 1
    /\ \E w \in {RemoveObject(World, o) :
                    o \in {x \in DOMAIN objects : objects[x].type = "MESH"}}
             \cup {RemoveTexture(World, t) : t \in DOMAIN textures}
             \cup {RemoveMaterial(World, m) : m \in DOMAIN materials} :
          /\ objects' = w.objects
          /\ collection' = w.collection
          /\ meshes' = w.meshes
          /\ textures' = w.textures
          /\ materials' = w.materials
          /\ selected' = w.selected
          /\ active' = w.active
    /\ streak' = [curve |-> NoName, n |-> 0]
    /\ prevArtifact' = NoArtifact
    /\ lastCompile' = NoCompile
    /\ UNCHANGED <<curves, uiVars, sessionVars, report, result, captureHist, nCompiles>>

-----------------------------------------------------------------------------
(* Initial state: a scene holding two hand-authored curves, the first one  *)
(* selected and active.                                                    *)

CurveA == <<"BezierCurve", 0>>

CurveB == <<"BezierCurve", 1>>

Curves == {CurveA, CurveB}

\* A hand-authored curve carries a custom property of the user's own.
UserCurve(data) ==
    [CurveObject(data) EXCEPT !.tags = [k \in {"note"} |-> <<"hand-made", 0>>]]

Init ==
    /\ objects = [n \in Curves |-> UserCurve(n)]
    /\ collection = Curves
    /\ curves = [n \in Curves |-> [dimensions |-> "3D", splines |-> <<NewSpline>>]]
    /\ meshes = [n \in {} |-> NoName]
    /\ textures = [n \in {} |-> NoName]
    /\ materials = [n \in {} |-> NoName]
    /\ selected = {CurveA}
    /\ active = CurveA
    /\ space_type = "VIEW_3D"
    /\ cursor = "DEFAULT"
    /\ draw_handlers = {}
    /\ modal_handlers = 0
    /\ redraw_tagged = FALSE
    /\ state = "INACTIVE"
    /\ points = <<>>
    /\ curve_ob = NoName
    /\ handle = 0
    /\ report = [level |-> "NONE", msg |-> ""]
    /\ result = "NONE"
    /\ lastCall = NoCall
    /\ clicked = <<>>
    /\ before = [objects |-> {}, curves |-> {}, meshes |-> {}, textures |-> {},
                 materials |-> {}, collection |-> {}]
    /\ removals = 0
    /\ nSessions = 0
    /\ lastCompile = NoCompile
    /\ streak = [curve |-> NoName, n |-> 0]
    /\ prevArtifact = NoArtifact
    /\ nCompiles = 0
    /\ nExternal = 0

NextCapture == invoke \/ Modal \/ SwitchSpace

SpecCapture == Init /\ [][NextCapture]_vars

NextCompile == Activate \/ Execute \/ ExternalDelete

SpecCompile == Init /\ [][NextCompile]_vars

-----------------------------------------------------------------------------
(* Properties of path capture, checked under SpecCapture.                  *)

\* The ray never meets the ground plane in front of its origin: it is
\* parallel to z = 0, or the intersection lies behind the origin.
ParallelToGround(ray) == ray.vec[3] = 0

BehindOrigin(ray) == ray.vec[3] # 0 /\ ray.origin[3] * ray.vec[3] > 0

DegenerateClick(call) ==
    /\ call.op = "modal"
    /\ call.event.type = "LEFTMOUSE"
    /\ call.event.value = "PRESS"
    /\ (ParallelToGround(call.event.ray) \/ BehindOrigin(call.event.ray))

\* C7: in CAPTURING, a primary-button press whose ray is parallel to the
\* ground plane, or whose intersection with z = 0 lies behind the ray
\* origin, changes neither the point sequence nor the backing curve (nor
\* whether it exists), reports nothing, and leaves the session CAPTURING.
C7_DegenerateClickIsNoOp ==
    [][ DegenerateClick(lastCall') =>
            /\ state = "CAPTURING" /\ state' = "CAPTURING"
            /\ result' = "RUNNING_MODAL"
            /\ points' = points
            /\ curve_ob' = curve_ob
            /\ objects' = objects
            /\ curves' = curves
            /\ collection' = collection
            /\ report' = report ]_vars

C7_Witness ==
    /\ DegenerateClick(lastCall)
    /\ BehindOrigin(lastCall.event.ray)
    /\ state = "CAPTURING"
    /\ Len(points) = 2
    /\ curve_ob \in DOMAIN objects

\* The control points of the session's backing curve.
ControlPoints == curves[objects[curve_ob].data].splines[1].bezier_points

\* C8: after n >= 1 valid clicks p1..pn (whatever degenerate clicks and
\* pass-through events came between) and a confirm, the curve has exactly n
\* control points, the i-th at pi, each with both handles AUTO; a click on
\* the world origin counts like any other.
C8_ConfirmedCurveMatchesClicks ==
    (state = "FINISHED" /\ Len(clicked) >= 1) =>
        /\ curve_ob \in DOMAIN objects
        /\ objects[curve_ob].type = "CURVE"
        /\ Len(curves[objects[curve_ob].data].splines) = 1
        /\ Len(ControlPoints) = Len(clicked)
        /\ \A i \in 1..Len(clicked) :
              /\ ControlPoints[i].co = clicked[i]
              /\ ControlPoints[i].handle_left_type = "AUTO"
              /\ ControlPoints[i].handle_right_type = "AUTO"

C8_Witness ==
    /\ state = "FINISHED"
    /\ clicked = <<Vec(0, 0, 0), Vec(5, 0, 0), Vec(10, 0, 0)>>
    /\ Len(ControlPoints) = 3

\* C9: after cancel, whatever was captured, neither the curve object nor
\* the curve data the session created remains: the scene and bpy.data hold
\* the datablocks they held when the session began.
C9_CancelLeavesNothing ==
    state = "CANCELLED" => Snapshot = before

\* C10: invoke outside a 3D view fails at once and never enters CAPTURING:
\* no draw handler, no modal handler, cursor unchanged, no point sequence
\* and no curve.
C10_WrongContextHasNoEffect ==
    [][ (lastCall'.op = "invoke" /\ space_type # "VIEW_3D") =>
            /\ result' = "CANCELLED"
            /\ report'.level = "WARNING"
            /\ state' = state /\ state' # "CAPTURING"
            /\ draw_handlers' = draw_handlers
            /\ modal_handlers' = modal_handlers
            /\ cursor' = cursor
            /\ points' = points
            /\ curve_ob' = curve_ob
            /\ handle' = handle
            /\ hostVars' = hostVars ]_vars

C10_Witness ==
    /\ lastCall.op = "invoke"
    /\ space_type = "NODE_EDITOR"
    /\ result = "CANCELLED"
    /\ state = "INACTIVE"
    /\ draw_handlers = {}

-----------------------------------------------------------------------------
(* Properties of the effect compiler, checked under SpecCompile.           *)

\* Datablocks of a collection that an execute on curve c created.
OwnedBy(coll, c) == {n \in DOMAIN coll : coll[n].owner = c}

\* C1: once execute has run n >= 2 times in a row on one curve, that curve
\* has exactly one surface object, one mesh, one noise texture and one
\* material; the last run's teardown removed the surface and the texture
\* the run before it made, and bpy.data holds no more datablocks than
\* after that earlier run.
C1_OneLiveArtifact ==
    streak.n >= 2 =>
        LET c == streak.curve
        IN  /\ Cardinality(Surfaces(c)) = 1
            /\ Cardinality(SurfaceMeshes(c)) = 1
            /\ Cardinality(SurfaceTextures(c)) = 1
            /\ Cardinality(SurfaceMaterials(c)) = 1
            /\ OwnedBy(objects, c) = Surfaces(c)
            /\ OwnedBy(textures, c) = SurfaceTextures(c)
            /\ lastCompile.removedObject = c
            /\ lastCompile.removedTexture = c
            /\ prevArtifact.valid
            /\ Counts = prevArtifact.counts

C1_Witness ==
    /\ streak.n >= 3
    /\ Cardinality(Surfaces(streak.curve)) = 1
    /\ Cardinality(DOMAIN objects) = 3

\* C2: an execute on a curve removes, or reuses, only a surface object,
\* texture or material that an earlier execute on that same curve created,
\* whatever executes on the other curve and outside deletions came between.
C2_TagsResolveToOwnArtifact ==
    lastCompile.ran =>
        /\ lastCompile.removedObject \in {NoName, lastCompile.curve}
        /\ lastCompile.removedTexture \in {NoName, lastCompile.curve}
        /\ lastCompile.reusedMaterial \in {NoName, lastCompile.curve}

\* The material the last execute built, and the F-curves on the Location
\* input of its pattern-offset node (the first Mapping node).
LastMaterial == materials[objects[lastCompile.curve].tags["aurora_material_name"]]

OffsetNode == <<"Mapping", 0>>

LocationKeys == {<<SocketDataPath(OffsetNode, LocationIndex), i>> : i \in 0..2}

\* C3: after an execute with animate set, each component of the offset
\* node's Location carries exactly two keyframes, at frames 1 and 250, with
\* value 0 at the first and Y = 5 at the second, both LINEAR, and its
\* F-curve has a CYCLES modifier.
C3_AnimatedOffsetIsLinearAndCyclic ==
    (lastCompile.ran /\ lastCompile.props.animate) =>
        LET fcurves == LastMaterial.animation.fcurves
        IN  /\ LastMaterial.animation.has_action
            /\ DOMAIN fcurves = LocationKeys
            /\ \A k \in LocationKeys :
                  LET kp == fcurves[k].keyframe_points
                  IN  /\ DOMAIN kp = {1, 250}
                      /\ kp[1].value = 0
                      /\ kp[250].value = (IF k[2] = 1 THEN 50 ELSE 0)
                      /\ kp[1].interpolation = "LINEAR"
                      /\ kp[250].interpolation = "LINEAR"
                      /\ \E i \in DOMAIN fcurves[k].modifiers :
                            fcurves[k].modifiers[i] = "CYCLES"

\* C4: after an execute with animate unset, the material carries no
\* animation track (no action, no F-curve), whatever executes came before.
C4_NoTrackWhenNotAnimated ==
    (lastCompile.ran /\ ~lastCompile.props.animate) =>
        /\ ~LastMaterial.animation.has_action
        /\ DOMAIN LastMaterial.animation.fcurves = {}

\* C5: an execute that repeats the previous execute on the same curve with
\* the same Parameter Set leaves the artifact that execute left: same tags,
\* same surface, mesh and texture, same nodes, links, constants, keyframes
\* and F-curve modifiers.
C5_Idempotent ==
    (lastCompile.ran /\ prevArtifact.valid /\ prevArtifact.props = lastCompile.props) =>
        Artifact(lastCompile.curve) = prevArtifact.art

C5_Witness ==
    /\ lastCompile.ran
    /\ prevArtifact.valid
    /\ prevArtifact.props = lastCompile.props
    /\ lastCompile.props.animate
    /\ lastCompile.reusedMaterial = lastCompile.curve
    /\ Cardinality(DOMAIN LastMaterial.animation.fcurves) = 3

\* Nodes a link leads to, and everything reachable along links.
Successors(links, from) == {l.to_node : l \in {k \in links : k.from_node \in from}}

RECURSIVE ReachableFrom(_, _)
ReachableFrom(links, seen) ==
    LET more == seen \cup Successors(links, seen)
    IN  IF more = seen THEN seen ELSE ReachableFrom(links, more)

NodesOfType(mat, type) == {n \in DOMAIN mat.nodes : mat.nodes[n].type = type}

\* How often a type occurs among the nodes execute creates.
Created(type) == Cardinality({i \in DOMAIN NodeTypes : NodeTypes[i] = type})

\* C6: after every execute the node tree holds exactly the 14 nodes this
\* execute created and their 16 links, one of them the only output node;
\* no node reaches itself; and every path from the texture-coordinate node
\* ends at the output node.
C6_GraphIsFreshSingleOutputDag ==
    lastCompile.ran =>
        LET mat   == LastMaterial
            names == DOMAIN mat.nodes
            src   == NodesOfType(mat, "ShaderNodeTexCoord")
            out   == NodesOfType(mat, "ShaderNodeOutputMaterial")
            reach == ReachableFrom(mat.links, src)
        IN  /\ Cardinality(names) = Len(NodeTypes)
            /\ \A n \in names : Cardinality(NodesOfType(mat, mat.nodes[n].type))
                                    = Created(mat.nodes[n].type)
            /\ Cardinality(out) = 1
            /\ Cardinality(src) = 1
            /\ Cardinality(mat.links) = 16
            /\ \A l \in mat.links : l.from_node \in names /\ l.to_node \in names
            /\ \A n \in names : n \notin ReachableFrom(mat.links, Successors(mat.links, {n}))
            /\ \A n \in reach : Successors(mat.links, {n}) = {} => n \in out
            /\ out \subseteq reach

C6_Witness ==
    /\ lastCompile.ran
    /\ streak.n >= 2
    /\ lastCompile.reusedMaterial = lastCompile.curve
    /\ Cardinality(DOMAIN LastMaterial.nodes) = 14
    /\ ~lastCompile.props.animate

\* No curve is active: nothing is, or the active object is of another type.
NotACurve == active \notin DOMAIN objects \/ objects[active].type # "CURVE"

\* A step in which execute runs on the active curve (only execute counts
\* itself in nCompiles).
ExecuteRuns == ~NotACurve /\ nCompiles' = nCompiles + 1

\* C11: Create / Update Aurora triggered while no object is active, or the
\* active object is not a curve, is refused and changes nothing: no object,
\* mesh, texture or material is created or deleted, no tag is written, and
\* the selection and the active object stay as they were.
C11_RefusedWithoutSideEffects ==
    [][ (NotACurve /\ Execute) =>
            /\ result' = "POLL_FAILED"
            /\ objects' = objects
            /\ collection' = collection
            /\ curves' = curves
            /\ meshes' = meshes
            /\ textures' = textures
            /\ materials' = materials
            /\ selected' = selected
            /\ active' = active
            /\ report' = report ]_vars

C11_Witness ==
    /\ result = "POLL_FAILED"
    /\ active \in DOMAIN objects
    /\ objects[active].type = "MESH"
    /\ nCompiles >= 1

\* The artifact the tags of curve c name is live and is c's own: a mesh
\* object that follows c, holds the tagged texture in its displacement
\* modifier and the tagged material in its first slot.
TagsNameLiveArtifact(objs, mshs, texs, mats, c) ==
    LET tags == objs[c].tags
    IN  /\ {"aurora_object_name", "aurora_texture_name", "aurora_material_name"}
               \subseteq DOMAIN tags
        /\ tags["aurora_object_name"] \in DOMAIN objs
        /\ tags["aurora_texture_name"] \in DOMAIN texs
        /\ tags["aurora_material_name"] \in DOMAIN mats
        /\ LET ob == objs[tags["aurora_object_name"]]
           IN  /\ ob.type = "MESH"
               /\ Len(ob.modifiers) = 2
               /\ ob.modifiers[1].object = c
               /\ ob.modifiers[2].texture = tags["aurora_texture_name"]
               /\ ob.data \in DOMAIN mshs
               /\ mshs[ob.data].materials = <<tags["aurora_material_name"]>>

\* C12: when a tag of the active curve names a datablock that no longer
\* exists, execute removes nothing on account of that tag, finishes
\* normally, and leaves the three tags naming a live, complete artifact.
C12_StaleTagIsAbsent ==
    [][ (ExecuteRuns /\ StaleTags(World, active) # {}) =>
            LET stale == StaleTags(World, active)
            IN  /\ result' = "FINISHED"
                /\ "aurora_object_name" \in stale =>
                       /\ DOMAIN objects \subseteq DOMAIN objects'
                       /\ DOMAIN meshes \subseteq DOMAIN meshes'
                /\ "aurora_texture_name" \in stale =>
                       DOMAIN textures \subseteq DOMAIN textures'
                /\ "aurora_material_name" \in stale =>
                       DOMAIN materials \subseteq DOMAIN materials'
                /\ TagsNameLiveArtifact(objects', meshes', textures', materials',
                                        active) ]_vars

C12_Witness ==
    /\ lastCompile.ran
    /\ lastCompile.stale = {"aurora_object_name"}
    /\ lastCompile.removedObject = NoName
    /\ TagsNameLiveArtifact(objects, meshes, textures, materials, lastCompile.curve)

\* The custom properties of an object, a key absent when unset.
TagOr(tags, k) == IF k \in DOMAIN tags THEN tags[k] ELSE NoName

OtherTagsKept(old, new, written) ==
    /\ DOMAIN new = (DOMAIN old) \cup written
    /\ \A k \in (DOMAIN old) \ written : new[k] = old[k]

\* C14 (as stated): execute writes or overwrites exactly two tags on the
\* curve, the surface-object name and the noise-texture name, and leaves
\* every other custom property of the curve as it was: no third tag.
C14_ExactlyTwoTags ==
    [][ ExecuteRuns =>
            OtherTagsKept(objects[active].tags, objects'[active].tags,
                          {"aurora_object_name", "aurora_texture_name"}) ]_vars

\* C14 (amended): execute keeps three tags on the curve: it writes or
\* overwrites the surface-object name and the noise-texture name, it writes
\* the material name when the curve has no material tag or the tag names
\* no material, and otherwise leaves that tag, like every other custom
\* property of the curve, as it was: no fourth tag.
C14_ThreeTags ==
    [][ ExecuteRuns =>
            LET old == objects[active].tags
                new == objects'[active].tags
            IN  /\ OtherTagsKept(old, new, {"aurora_object_name", "aurora_texture_name",
                                            "aurora_material_name"})
                /\ new["aurora_object_name"] \in DOMAIN objects'
                /\ new["aurora_texture_name"] \in DOMAIN textures'
                /\ new["aurora_material_name"] \in DOMAIN materials'
                /\ TagOr(old, "aurora_material_name") \in DOMAIN materials =>
                       new["aurora_material_name"] = old["aurora_material_name"] ]_vars

C14_Witness ==
    /\ lastCompile.ran
    /\ streak.n >= 2
    /\ DOMAIN objects[lastCompile.curve].tags =
           {"note", "aurora_object_name", "aurora_texture_name", "aurora_material_name"}
    /\ objects[lastCompile.curve].tags["note"] = <<"hand-made", 0>>
    /\ lastCompile.reusedMaterial = lastCompile.curve

\* C15: when execute finishes, the curve's surface tag and texture tag hold
\* the names the host gave the object and the texture this execute made
\* (names that were free, or that its own teardown freed), both exist, the
\* curve is not selected, and the new surface is selected and active.
C15_TagsAndSelectionAtEnd ==
    [][ ExecuteRuns =>
            LET c    == active
                tags == objects'[c].tags
                s    == tags["aurora_object_name"]
                x    == tags["aurora_texture_name"]
            IN  /\ result' = "FINISHED"
                /\ s \in DOMAIN objects'
                /\ objects'[s].type = "MESH"
                /\ objects'[s].owner = c
                /\ objects'[s].modifiers[1].object = c
                /\ s \in DOMAIN objects => s = OldAurora(World, c)
                /\ x \in DOMAIN textures'
                /\ textures'[x].owner = c
                /\ objects'[s].modifiers[2].texture = x
                /\ x \in DOMAIN textures => x = OldTexture(World, c)
                /\ c \notin selected'
                /\ s \in selected'
                /\ active' = s ]_vars

C15_Witness ==
    /\ lastCompile.ran
    /\ lastCompile.curve = CurveB
    /\ objects[CurveB].tags["aurora_object_name"] = <<"Aurora", 1>>
    /\ objects[CurveB].tags["aurora_texture_name"] = <<"AuroraDisplaceTexture", 1>>
    /\ active = <<"Aurora", 1>>
    /\ selected = {<<"Aurora", 1>>}

\* Links that end in an input socket of a node.
LinksInto(mat, node, socket) ==
    {l \in mat.links : l.to_node = node /\ l.to_socket = socket}

\* The stretch mapping is the Mapping node with the scale (0.2, 10, 1);
\* the pattern-offset mapping is the other one.
StretchNodes(mat) ==
    {n \in NodesOfType(mat, "ShaderNodeMapping") :
        mat.nodes[n].inputs["Scale"] = <<2, 100, 10>>}

AnimatedNodes(mat) == {k[1][2] : k \in DOMAIN mat.animation.fcurves}

\* C16: in the node tree every execute leaves, the pattern-offset mapping
\* is a node of its own, wired before the stretch mapping: the noise
\* node's Vector input is fed by the stretch mapping only, that by the
\* offset mapping only, and that by the texture coordinate only; with
\* animate set the keyframes are on the offset node, and never on the
\* stretch node.
C16_OffsetBeforeStretch ==
    lastCompile.ran =>
        LET mat     == LastMaterial
            mapping == NodesOfType(mat, "ShaderNodeMapping")
            stretch == StretchNodes(mat)
            offset  == mapping \ stretch
            noise   == NodesOfType(mat, "ShaderNodeTexNoise")
            coord   == NodesOfType(mat, "ShaderNodeTexCoord")
        IN  /\ Cardinality(mapping) = 2
            /\ Cardinality(stretch) = 1
            /\ Cardinality(offset) = 1
            /\ Cardinality(noise) = 1
            /\ \A o \in offset : mat.nodes[o].inputs["Scale"] = <<10, 10, 10>>
            /\ \A n \in noise :
                  {l.from_node : l \in LinksInto(mat, n, "Vector")} = stretch
            /\ \A t \in stretch :
                  {l.from_node : l \in LinksInto(mat, t, "Vector")} = offset
            /\ \A o \in offset :
                  /\ {l.from_node : l \in LinksInto(mat, o, "Vector")} = coord
                  /\ \A l \in LinksInto(mat, o, "Vector") : l.from_socket = "Generated"
            /\ AnimatedNodes(mat) \cap stretch = {}
            /\ lastCompile.props.animate => AnimatedNodes(mat) = offset

C16_Witness ==
    /\ lastCompile.ran
    /\ lastCompile.props.animate
    /\ lastCompile.reusedMaterial = lastCompile.curve
    /\ AnimatedNodes(LastMaterial) = {<<"Mapping", 0>>}
    /\ StretchNodes(LastMaterial) = {<<"Mapping", 1>>}

-----------------------------------------------------------------------------
(* Further properties of path capture, checked under SpecCapture.          *)

\* An event modal neither handles as a click nor as confirm or cancel.
OtherEvent(call) ==
    /\ call.op = "modal"
    /\ call.event.type \notin {"RIGHTMOUSE", "RET", "ESC"}
    /\ ~(call.event.type = "LEFTMOUSE" /\ call.event.value = "PRESS")

\* C13: in CAPTURING, an event that is not a primary-button press, a
\* confirm (right button, Return) or Escape is passed through, and the
\* session is as before: same state, points and backing curve, and the
\* overlay still installed.
C13_OtherEventsPassThrough ==
    [][ OtherEvent(lastCall') =>
            /\ state = "CAPTURING" /\ state' = "CAPTURING"
            /\ result' = "PASS_THROUGH"
            /\ points' = points
            /\ curve_ob' = curve_ob
            /\ objects' = objects
            /\ curves' = curves
            /\ collection' = collection
            /\ handle' = handle
            /\ draw_handlers' = draw_handlers
            /\ handle' \in draw_handlers'
            /\ modal_handlers' = modal_handlers
            /\ cursor' = cursor ]_vars

C13_Witness ==
    /\ OtherEvent(lastCall)
    /\ lastCall.event.type = "LEFTMOUSE"
    /\ result = "PASS_THROUGH"
    /\ state = "CAPTURING"
    /\ Len(points) = 2
    /\ handle \in draw_handlers

\* Control points of the session's backing curve; none when it has no curve.
ControlPointCount ==
    IF curve_ob \in DOMAIN objects THEN Len(ControlPoints) ELSE 0

IsPrefix(s, t) == Len(s) <= Len(t) /\ \A i \in 1..Len(s) : t[i] = s[i]

\* C17: while the session is CAPTURING, after every event, the backing
\* curve exists exactly when a valid point has been captured, it has at
\* least as many control points as points were captured, the number of
\* control points has not gone down, and the points captured before are
\* still there, in place and in order.
C17_CurveGrowsWithPoints ==
    [][ state' = "CAPTURING" =>
            /\ (curve_ob' # NoName) <=> (Len(clicked') >= 1)
            /\ (curve_ob' # NoName) <=> (Len(points') >= 1)
            /\ curve_ob' # NoName =>
                   /\ curve_ob' \in DOMAIN objects'
                   /\ curve_ob' \in collection'
                   /\ objects'[curve_ob'].data \in DOMAIN curves'
            /\ ControlPointCount' >= Len(points')
            /\ state = "CAPTURING" =>
                   /\ ControlPointCount' >= ControlPointCount
                   /\ IsPrefix(points, points')
                   /\ Len(points') <= Len(points) + 1
                   /\ curve_ob # NoName => curve_ob' = curve_ob ]_vars

C17_Witness ==
    /\ state = "CAPTURING"
    /\ Len(points) = 3
    /\ ControlPointCount = 3
    /\ IsPress(lastCall.event)
    /\ HitsGround(lastCall.event.ray)

Ended == {"FINISHED", "CANCELLED"}

\* C18: the draw handler is installed and the cursor is the crosshair
\* exactly while the session is CAPTURING; a session that has FINISHED or
\* was CANCELLED has removed its draw handler once, has the default cursor
\* back and is no longer a modal handler, and from then on its points, its
\* curve and the draw handlers stay as they are until a new session starts.
C18_OverlayFollowsSession ==
    [][ /\ (state' = "CAPTURING") <=> (handle' \in draw_handlers')
        /\ (state' = "CAPTURING") <=> (cursor' = "CROSSHAIR")
        /\ state' = "CAPTURING" =>
               /\ draw_handlers' = {handle'}
               /\ removals' = 0
               /\ modal_handlers' = 1
        /\ state' \in Ended =>
               /\ draw_handlers' = {}
               /\ removals' = 1
               /\ cursor' = "DEFAULT"
               /\ modal_handlers' = 0
        /\ (state \in Ended /\ lastCall'.op # "invoke") =>
               /\ state' = state
               /\ points' = points
               /\ curve_ob' = curve_ob
               /\ objects' = objects
               /\ curves' = curves
               /\ draw_handlers' = draw_handlers
               /\ cursor' = cursor ]_vars

C18_Witness ==
    /\ state = "CANCELLED"
    /\ lastCall.op = "modal"
    /\ lastCall.event.type = "ESC"
    /\ Len(points) = 2
    /\ removals = 1
    /\ draw_handlers = {}
    /\ cursor = "DEFAULT"

Confirm(call) == call.op = "modal" /\ call.event.type \in {"RIGHTMOUSE", "RET"}

\* C19: a confirm in a session that captured no valid point (no click, or
\* only degenerate ones) ends it FINISHED with no curve object or curve data
\* made, the selection and the active object as they were, and the report
\* "Path created.".
C19_EmptyConfirm ==
    [][ (Confirm(lastCall') /\ clicked = <<>>) =>
            /\ state = "CAPTURING" /\ state' = "FINISHED"
            /\ result' = "FINISHED"
            /\ curve_ob' = NoName
            /\ Snapshot' = before
            /\ objects' = objects
            /\ curves' = curves
            /\ selected' = selected
            /\ active' = active
            /\ report' = [level |-> "INFO", msg |-> "Path created."] ]_vars

C19_Witness ==
    /\ Confirm(lastCall)
    /\ state = "FINISHED"
    /\ clicked = <<>>
    /\ curve_ob = NoName
    /\ selected = {CurveA}
    /\ active = CurveA
    /\ report.msg = "Path created."

\* C20: when a session has FINISHED with at least one point captured, its
\* curve is the only selected object and the active one, so poll of
\* Create / Update Aurora holds; when a session was CANCELLED, its curve is
\* not the active object (nor selected, nor in bpy.data.objects).
C20_FinishedCurveIsActive ==
    /\ (state = "FINISHED" /\ Len(points) >= 1) =>
           /\ curve_ob \in DOMAIN objects
           /\ objects[curve_ob].type = "CURVE"
           /\ selected = {curve_ob}
           /\ active = curve_ob
           /\ poll
    /\ (state = "CANCELLED" /\ curve_ob # NoName) =>
           /\ active # curve_ob
           /\ curve_ob \notin selected
           /\ curve_ob \notin DOMAIN objects

C20_Witness ==
    /\ state = "FINISHED"
    /\ Len(points) = 2
    /\ curve_ob = <<"AuroraCurve", 0>>
    /\ selected = {curve_ob}
    /\ active = curve_ob
    /\ CurveA \in before.objects

====
